---- MODULE Spec2Model ----
(***************************************************************************)
(* ImageSource (src/source/image_source.js): one georeferenced raster      *)
(* shown as the single content of one synthetic map tile.                  *)
(*                                                                         *)
(* Encoding of JavaScript values.  A field that may be `undefined` is a    *)
(* sequence of length at most one: <<>> is undefined, <<v>> is the value   *)
(* v.  Objects with dynamic keys (options, the claim table `tiles`, the    *)
(* result of serialize) are functions from key strings to values, and a    *)
(* read of a missing key gives undefined (Get).                            *)
(*                                                                         *)
(* Tile space.  A Coordinate is [column, row, zoom]; column and row are    *)
(* numerators over Q, so that the fractional coordinates the code works    *)
(* with are exact.                                                         *)
(***************************************************************************)
EXTENDS Integers, Sequences, FiniteSets, TLC

\* ------------------------------------------------------------------ bounds
\* user calls of setCoordinates explored on one source
MaxSetCalls == 2
\* texture uploads explored on one GL context
MaxUploads == 3

\* ------------------------------------------------------- program constants
EXTENT == 8192
DefaultMinzoom == 0
DefaultMaxzoom == 22

\* ---------------------------------------------------------- value encoding
Undefined == <<>>
Some(v) == <<v>>
IsDefined(o) == o # <<>>
Val(o) == o[1]
Get(obj, key) == IF key \in DOMAIN obj THEN Some(obj[key]) ELSE Undefined

RECURSIVE Pow2(_)
Pow2(n) == IF n <= 0 THEN 1 ELSE 2 * Pow2(n - 1)

Min(S) == CHOOSE x \in S : \A y \in S : x <= y
Max(S) == CHOOSE x \in S : \A y \in S : x >= y
Range(f) == {f[i] : i \in DOMAIN f}

\* ------------------------------------------------------------------ inputs
\* world units per zoom-0 tile in which the modelled corners are exact
Den == 24
\* denominator of every Coordinate numerator (a centre is a half unit)
Q == 2 * Den

\* Corners are [lng, lat] pairs in microdegrees, top-left first, clockwise.
\* CornersA and CornersB (not a rectangle) share an anchor tile; CornersC
\* has another one, at another zoom.
CornersA == << <<-120000000, 40979898>>, <<-90000000, 40979898>>,
               <<-90000000, 28716284>>, <<-120000000, 28716284>> >>
CornersB == << <<-120000000, 40979898>>, <<-90000000, 28716284>>,
               <<-90000000, 14831531>>, <<-120000000, 28716284>> >>
CornersC == << <<75000000, -28716284>>, <<90000000, -28716284>>,
               <<90000000, -40979898>>, <<75000000, -40979898>> >>
CornerSets == {CornersA, CornersB, CornersC}

\* The options a source is constructed with.
OptionsA == [url |-> "a.png", coordinates |-> CornersA]
OptionsC == [url |-> "c.png", coordinates |-> CornersC]
OptionSets == {OptionsA, OptionsC}
Errors == {"404", "timeout"}

\* The tile objects the tile cache may hand to loadTile: tile.coord is
\* [z, x, y, w].  Tiles 1 and 2 are two world copies of one tile.
TileIds == 1 .. 4
TileCoordOf(t) ==
    CASE t = 1 -> [z |-> 3, x |-> 1, y |-> 3, w |-> 0]
      [] t = 2 -> [z |-> 3, x |-> 1, y |-> 3, w |-> 1]
      [] t = 3 -> [z |-> 4, x |-> 11, y |-> 9, w |-> 0]
      [] t = 4 -> [z |-> 3, x |-> 1, y |-> 4, w |-> 0]
\* A tile as the cache constructs it; tiles 1 and 3 come back for a reload
\* with bucket data from before.
NewTile(t) == [state |-> "loading", texture |-> Undefined,
               buckets |-> IF t \in {1, 3} THEN {"bucket"} ELSE {}]

\* ------------------------------------------------ external collaborators
\* LngLat.convert: a [lng, lat] array becomes a LngLat object.
LngLatConvert(c) == [lng |-> c[1], lat |-> c[2]]

\* Mercator row of a latitude, in 1/Den of the zoom-0 tile (tabulated for
\* the latitudes of the modelled corners).
LatY(lat) ==
    CASE lat = 40979898 -> 9
      [] lat = 28716284 -> 10
      [] lat = 14831531 -> 11
      [] lat = -28716284 -> 14
      [] lat = -40979898 -> 15

\* Mercator column of a longitude, in 1/Den of the zoom-0 tile.
LngX(lng) == (180000000 + lng) \div (360000000 \div Den)

\* Coordinate.zoomTo: rescale to another zoom (the code only scales up
\* from zoom 0).
ZoomTo(c, zoom) ==
    [column |-> c.column * Pow2(zoom - c.zoom),
     row |-> c.row * Pow2(zoom - c.zoom),
     zoom |-> zoom]

\* map.transform.locationCoordinate(lnglat).zoomTo(0)
LocationCoordinateZ0(lnglat) ==
    [column |-> 2 * LngX(lnglat.lng), row |-> 2 * LatY(lnglat.lat), zoom |-> 0]

\* floor(-log2(d / Q)) for d > 0: the largest z with 2^z * d <= Q.
RECURSIVE FloorNegLog2(_, _)
FloorNegLog2(d, z) ==
    IF 2 * Pow2(z) * d <= Q THEN FloorNegLog2(d, z + 1) ELSE z

\* util.getCoordinatesCenter: centre of the bounding box of the points, at
\* the largest zoom at which the box is no larger than one tile.
GetCoordinatesCenter(coords) ==
    LET cols == {coords[i].column : i \in DOMAIN coords}
        rows == {coords[i].row : i \in DOMAIN coords}
        dx == Max(cols) - Min(cols)
        dy == Max(rows) - Min(rows)
        dMax == IF dx > dy THEN dx ELSE dy
        zoom == IF dMax > Q THEN 0 ELSE FloorNegLog2(dMax, 0)
    IN  ZoomTo([column |-> (Min(cols) + Max(cols)) \div 2,
                row |-> (Min(rows) + Max(rows)) \div 2,
                zoom |-> 0], zoom)

\* TileCoord.toString: "z/x/y"; the wrap w is not part of it.
TileCoordToString(c) == <<c.z, c.x, c.y>>

\* String(w) for the wrap indices of the modelled tiles.
WrapKey(w) ==
    CASE w = 0 -> "0"
      [] w = 1 -> "1"
      [] w = -1 -> "-1"

\* Math.floor and Math.round of the fraction n / Q.
MathFloorQ(n) == n \div Q
MathRoundQ(n) == (2 * n + Q) \div (2 * Q)

\* ------------------------------------------------------------------- state
VARIABLES
    map,            \* this.map is set (the source is attached)
    options,        \* this.options
    url,            \* this.url
    coordinates,    \* this.coordinates
    image,          \* this.image
    minzoom,        \* this.minzoom
    maxzoom,        \* this.maxzoom
    tiles,          \* this.tiles: wrap key -> tile
    textureLoaded,  \* this.textureLoaded
    texture,        \* this.texture
    centerCoord,    \* this.centerCoord
    coord,          \* this.coord, the anchor tile
    boundsArray,    \* this._boundsArray, the quad geometry
    boundsBuffer,   \* this.boundsBuffer
    boundsVAO,      \* this.boundsVAO
    tile,           \* the tile objects of the tile cache
    gl,             \* what the GL context and the buffers have been asked
    fetch,          \* the ajax.getImage request of load()
    events,         \* every event fired, in order
    last,           \* the most recent call and how it ended
    lastSet,        \* the most recent setCoordinates call: corners, outcome
    nSetCalls,      \* user calls of setCoordinates so far
    lastPrepareImage \* the most recent _prepareImage call: image, resize

source == <<map, options, url, coordinates, image, minzoom, maxzoom, tiles,
            textureLoaded, texture, centerCoord, coord, boundsArray,
            boundsBuffer, boundsVAO>>
vars == <<map, options, url, coordinates, image, minzoom, maxzoom, tiles,
          textureLoaded, texture, centerCoord, coord, boundsArray,
          boundsBuffer, boundsVAO, tile, gl, fetch, events, last, lastSet,
          nSetCalls, lastPrepareImage>>

Call(op, t, threw, returned, callbacks) ==
    [op |-> op, tile |-> t, threw |-> threw, returned |-> returned,
     callbacks |-> callbacks]

\* options.url and options.coordinates, as the constructor and load read them
OptionsUrl(opts) == Get(opts, "url")
OptionsCoordinates(opts) == Get(opts, "coordinates")

\* ------------------------------------------------------------- constructor
Init ==
    /\ map = FALSE
    /\ options \in OptionSets
    /\ url = Undefined
    /\ coordinates = Val(OptionsCoordinates(options))
    /\ image = Undefined
    /\ minzoom = DefaultMinzoom
    /\ maxzoom = DefaultMaxzoom
    /\ tiles = [k \in {} |-> 0]
    /\ textureLoaded = FALSE
    /\ texture = Undefined
    /\ centerCoord = Undefined
    /\ coord = Undefined
    /\ boundsArray = Undefined
    /\ boundsBuffer = Undefined
    /\ boundsVAO = FALSE
    /\ tile = [t \in TileIds |-> NewTile(t)]
    /\ gl = [textures |-> 0, buffers |-> 0, destroyed |-> 0,
             texImage2D |-> 0, texSubImage2D |-> 0, bound |-> Undefined,
             uploadedTo |-> Undefined]
    /\ fetch = Undefined
    /\ events = <<>>
    /\ last = Call("constructor", 0, FALSE, Undefined, <<>>)
    /\ lastSet = Undefined
    /\ nSetCalls = 0
    /\ lastPrepareImage = Undefined

\* ------------------------------------------------------------------ events
DataLoadingEvent == [type |-> "dataloading", dataType |-> "source"]
ErrorEvent(err) == [type |-> "error", error |-> err]
ContentEvent == [type |-> "data", dataType |-> "source", sourceDataType |-> "content"]
MetadataEvent == [type |-> "data", dataType |-> "source", sourceDataType |-> "metadata"]

\* ---------------------------------------------------------- setCoordinates
\* the geo coordinates as zoom-0 tile space coordinates
CornerZ0Coords(cs) ==
    [i \in DOMAIN cs |-> LocationCoordinateZ0(LngLatConvert(cs[i]))]

\* variant: the centre is taken from the corners stored before the call
CenterCoordStale(cs) ==
    LET c == GetCoordinatesCenter(CornerZ0Coords(coordinates))
    IN  [column |-> MathFloorQ(c.column), row |-> MathFloorQ(c.row),
         zoom |-> c.zoom]

\* the centre of the corners with column and row rounded down to integers
CenterCoord(cs) ==
    LET c == GetCoordinatesCenter(CornerZ0Coords(cs))
    IN  [column |-> MathFloorQ(c.column), row |-> MathFloorQ(c.row),
         zoom |-> c.zoom]

\* new TileCoord(z, x, y): the wrap defaults to 0
NewTileCoord(z, x, y) == [z |-> z, x |-> x, y |-> y, w |-> 0]

\* variant: only minzoom is constrained to the anchor's zoom
ZoomRangeMinOnly(cc) == [minzoom |-> cc.zoom, maxzoom |-> DefaultMaxzoom]

\* this.minzoom = this.maxzoom = centerCoord.zoom
ZoomRange(cc) == [minzoom |-> cc.zoom, maxzoom |-> cc.zoom]

\* the corners in the coordinate space of the anchor tile
TileCoords(cs, cc) ==
    [i \in DOMAIN cs |->
        LET zoomedCoord == ZoomTo(CornerZ0Coords(cs)[i], cc.zoom)
        IN  [x |-> MathRoundQ((zoomedCoord.column - cc.column * Q) * EXTENT),
             y |-> MathRoundQ((zoomedCoord.row - cc.row * Q) * EXTENT)]]

\* RasterBoundsArray.emplaceBack
Vertex(p, tx, ty) == [x |-> p.x, y |-> p.y, tx |-> tx, ty |-> ty]

\* variant: the corners are emitted in their own order, without the swap
BoundsArrayInOrder(tc) ==
    << Vertex(tc[1], 0, 0), Vertex(tc[2], EXTENT, 0),
       Vertex(tc[3], 0, EXTENT), Vertex(tc[4], EXTENT, EXTENT) >>

\* variant: the vertices are appended to the array of the previous call
BoundsArrayAppended(tc) ==
    (IF IsDefined(boundsArray) THEN Val(boundsArray) ELSE << >>) \o
    << Vertex(tc[1], 0, 0), Vertex(tc[2], EXTENT, 0),
       Vertex(tc[4], 0, EXTENT), Vertex(tc[3], EXTENT, EXTENT) >>

\* the four emplaceBack calls on the new RasterBoundsArray
BoundsArray(tc) ==
    << Vertex(tc[1], 0, 0), Vertex(tc[2], EXTENT, 0),
       Vertex(tc[4], 0, EXTENT), Vertex(tc[3], EXTENT, EXTENT) >>

\* variant: a stale buffer is kept
DestroysBufferNever == FALSE

\* if (this.boundsBuffer): the buffer to destroy and forget
DestroysBuffer == IsDefined(boundsBuffer)

\* variant: the event is fired as a metadata event
SetCoordinatesEventsMetadata == << MetadataEvent >>

\* the event setCoordinates fires before it returns
SetCoordinatesEvents == << ContentEvent >>

\* setCoordinates on an attached source, lines 128-176
SetCoordinatesBody(cs) ==
    LET cc == CenterCoord(cs)
    IN  /\ coordinates' = cs
        /\ centerCoord' = Some(cc)
        /\ coord' = Some(NewTileCoord(cc.zoom, cc.column, cc.row))
        /\ minzoom' = ZoomRange(cc).minzoom
        /\ maxzoom' = ZoomRange(cc).maxzoom
        /\ boundsArray' = Some(BoundsArray(TileCoords(cs, cc)))
        /\ IF DestroysBuffer
             THEN /\ gl' = [gl EXCEPT !.destroyed = @ + 1]
                  /\ boundsBuffer' = Undefined
             ELSE UNCHANGED <<gl, boundsBuffer>>
        /\ lastSet' = Some([corners |-> cs, threw |-> FALSE])

\* variant: the claim table is emptied when the anchor is recomputed
SetCoordinatesKeepsButTiles ==
    /\ tiles' = [k \in {} |-> 0]
    /\ UNCHANGED <<map, options, url, image, textureLoaded, texture,
                   boundsVAO, tile, fetch, lastPrepareImage>>

\* what setCoordinates never assigns: the image, the claim table, the
\* texture and its flag, the tiles
SetCoordinatesKeeps ==
    UNCHANGED <<map, options, url, image, tiles, textureLoaded, texture,
                boundsVAO, tile, fetch, lastPrepareImage>>

\* A call of setCoordinates by the user of the source.  On a source that
\* has no map yet, `map.transform` (line 138) throws a TypeError after
\* line 128 has stored the corners.
SetCoordinates(cs) ==
    /\ nSetCalls < MaxSetCalls
    /\ nSetCalls' = nSetCalls + 1
    /\ IF map
         THEN /\ SetCoordinatesBody(cs)
              /\ events' = events \o SetCoordinatesEvents
              /\ last' = Call("setCoordinates", 0, FALSE, Some("this"), <<>>)
              /\ SetCoordinatesKeeps
         ELSE /\ coordinates' = cs
              /\ lastSet' = Some([corners |-> cs, threw |-> TRUE])
              /\ last' = Call("setCoordinates", 0, TRUE, Undefined, <<>>)
              /\ UNCHANGED <<map, options, url, image, minzoom, maxzoom, tiles,
                             textureLoaded, texture, centerCoord, coord,
                             boundsArray, boundsBuffer, boundsVAO, tile, gl,
                             fetch, events, lastPrepareImage>>

\* ------------------------------------------------------------ onAdd / load
\* map._transformRequest(url, ResourceType.Image): the request parameters
TransformRequest(u) == [url |-> u, type |-> "Image"]

\* onAdd(map), called once by the source cache: records the map and calls
\* load(), which fires 'dataloading' and starts the fetch.
OnAdd ==
    /\ ~map
    /\ map' = TRUE
    /\ events' = Append(events, DataLoadingEvent)
    /\ url' = OptionsUrl(options)
    /\ fetch' = Some([request |-> TransformRequest(url'), status |-> "pending",
                        error |-> Undefined])
    /\ last' = Call("onAdd", 0, FALSE, Undefined, <<>>)
    /\ UNCHANGED <<options, coordinates, image, minzoom, maxzoom, tiles,
                   textureLoaded, texture, centerCoord, coord, boundsArray,
                   boundsBuffer, boundsVAO, tile, gl, lastSet, nSetCalls,
                   lastPrepareImage>>

FetchPending == IsDefined(fetch) /\ Val(fetch).status = "pending"

\* what the getImage callback fires when the request failed
FetchErrorEvents(err) == << ErrorEvent(err) >>

\* the getImage callback with an error, lines 97-98
FetchFail(err) ==
    /\ FetchPending
    /\ fetch' = Some([Val(fetch) EXCEPT !.status = "failed", !.error = Some(err)])
    /\ events' = events \o FetchErrorEvents(err)
    /\ last' = Call("getImage callback", 0, FALSE, Undefined, <<>>)
    /\ UNCHANGED <<source, tile, gl, lastSet, nSetCalls, lastPrepareImage>>

\* the image ajax.getImage delivers for a request
FetchedImage(request) == [src |-> request.url, kind |-> "HTMLImageElement"]

\* variant: _finishLoading fires nothing of its own
FinishLoadingEventsNone == << >>

\* what _finishLoading fires after its setCoordinates call
FinishLoadingEvents == << MetadataEvent >>

\* the getImage callback with an image, lines 99-101, and _finishLoading
FetchSucceed ==
    /\ FetchPending
    /\ fetch' = Some([Val(fetch) EXCEPT !.status = "loaded"])
    /\ image' = Some(FetchedImage(Val(fetch).request))
    /\ last' = Call("getImage callback", 0, FALSE, Undefined, <<>>)
    /\ IF map
         THEN /\ SetCoordinatesBody(coordinates)
              /\ events' = events \o SetCoordinatesEvents \o FinishLoadingEvents
         ELSE UNCHANGED <<coordinates, centerCoord, coord, minzoom, maxzoom,
                          boundsArray, boundsBuffer, gl, lastSet, events>>
    /\ UNCHANGED <<map, options, url, tiles, textureLoaded, texture,
                   boundsVAO, tile, nSetCalls, lastPrepareImage>>

\* ------------------------------------------------------------------ prepare
\* the tiles of the claim table
Claimed == Range(tiles)

\* variant: the claim table is not looked at
PrepareSkipsImageOnly == ~IsDefined(image)

\* line 180: nothing to do without a claimed tile or without the image
PrepareSkips == Cardinality(DOMAIN tiles) = 0 \/ ~IsDefined(image)

\* line 185: no buffer yet
CreatesBuffer == ~IsDefined(boundsBuffer)

\* variant: the textureLoaded flag is not looked at
CreatesTextureAlways == TRUE

\* line 193: no texture yet
CreatesTexture == ~textureLoaded

\* image instanceof HTMLVideoElement, ImageData or HTMLCanvasElement
IsStreaming(img) == img.kind \in {"HTMLVideoElement", "ImageData", "HTMLCanvasElement"}

\* variant: the tile is marked loaded without being given the texture
MarkLoadedStateOnly(tl, tex) ==
    IF tl.state # "loaded"
      THEN [tl EXCEPT !.state = "loaded"]
      ELSE tl

\* lines 211-214: a claimed tile that is not 'loaded' gets the texture
MarkLoaded(tl, tex) ==
    IF tl.state # "loaded"
      THEN [tl EXCEPT !.state = "loaded", !.texture = tex]
      ELSE tl

\* lines 196 and 205: the branches that call gl.bindTexture(this.texture);
\* the resize branch (lines 202-203) does not
BindsTexture(img, resize) ==
    CreatesTexture \/ (~resize /\ IsStreaming(img))

\* variant: the resize flag is looked at only for streaming rasters
FullUploadStreamingOnly(img, resize) ==
    CreatesTexture \/ (resize /\ IsStreaming(img))

\* lines 201 and 203: the branches that call gl.texImage2D
FullUpload(img, resize) == CreatesTexture \/ resize

\* line 206: the branch that calls gl.texSubImage2D
PartUpload(img, resize) == ~CreatesTexture /\ ~resize /\ IsStreaming(img)

\* _prepareImage(gl, image, resize), lines 184-216
PrepareImage(img, resize) ==
    LET newBuffers == IF CreatesBuffer THEN gl.buffers + 1 ELSE gl.buffers
        newTexture == IF CreatesTexture THEN Some(gl.textures + 1) ELSE texture
        fullUpload == FullUpload(img, resize)
        partUpload == PartUpload(img, resize)
        newBound == IF BindsTexture(img, resize) THEN newTexture ELSE gl.bound
    IN  /\ lastPrepareImage' = Some([image |-> img, resize |-> resize])
        /\ boundsBuffer' = IF CreatesBuffer
                             THEN Some([id |-> newBuffers, array |-> boundsArray])
                             ELSE boundsBuffer
        /\ boundsVAO' = TRUE
        /\ textureLoaded' = TRUE
        /\ texture' = newTexture
        /\ gl' = [gl EXCEPT
                    !.buffers = newBuffers,
                    !.textures = IF CreatesTexture THEN @ + 1 ELSE @,
                    !.bound = newBound,
                    !.texImage2D = IF fullUpload THEN @ + 1 ELSE @,
                    !.texSubImage2D = IF partUpload THEN @ + 1 ELSE @,
                    !.uploadedTo = IF fullUpload \/ partUpload
                                     THEN newBound ELSE @]
        /\ tile' = [t \in TileIds |->
                      IF t \in Claimed THEN MarkLoaded(tile[t], newTexture)
                                       ELSE tile[t]]

\* prepare(), lines 179-182
Prepare ==
    /\ last' = Call("prepare", 0, FALSE, Undefined, <<>>)
    /\ IF PrepareSkips
         THEN UNCHANGED <<boundsBuffer, boundsVAO, textureLoaded, texture, gl,
                          tile, lastPrepareImage>>
         ELSE PrepareImage(Val(image), FALSE)
    /\ UNCHANGED <<map, options, url, coordinates, image, minzoom, maxzoom,
                   tiles, centerCoord, coord, boundsArray, fetch, events,
                   lastSet, nSetCalls>>

\* the kinds of raster _prepareImage is declared for (line 184) or tests
\* for (line 204)
ImageKinds == {"HTMLImageElement", "HTMLVideoElement", "ImageData",
               "HTMLCanvasElement"}

\* a raster of the given kind handed to _prepareImage by its caller
RasterOf(kind) == [src |-> "raster", kind |-> kind]

\* _prepareImage(gl, image, resize) called directly, as the sources derived
\* from ImageSource do on every frame, once the geometry exists
PrepareImageCall(kind, resize) ==
    /\ IsDefined(boundsArray)
    /\ gl.texImage2D + gl.texSubImage2D < MaxUploads
    /\ PrepareImage(RasterOf(kind), resize)
    /\ last' = Call("_prepareImage", 0, FALSE, Undefined, <<>>)
    /\ UNCHANGED <<map, options, url, coordinates, image, minzoom, maxzoom,
                   tiles, centerCoord, coord, boundsArray, fetch, events,
                   lastSet, nSetCalls>>

\* a texture of the GL context that gl.createTexture did not return to this
\* source (the ids it returns start at 1)
ForeignTexture == 0

\* another user of the same GL context binds its texture between two frames
BindForeignTexture ==
    /\ gl.bound # Some(ForeignTexture)
    /\ gl' = [gl EXCEPT !.bound = Some(ForeignTexture)]
    /\ last' = Call("gl.bindTexture", 0, FALSE, Undefined, <<>>)
    /\ UNCHANGED <<source, tile, fetch, events, lastSet, nSetCalls,
                   lastPrepareImage>>

\* ----------------------------------------------------------------- loadTile
\* variant: the wrap of the requested tile is compared too
LoadTileMatchesWrap(t) ==
    /\ IsDefined(coord)
    /\ Val(coord) = TileCoordOf(t)

\* variant: every requested tile is accepted
LoadTileMatchesAlways(t) == TRUE

\* line 225: the requested tile is the anchor tile
LoadTileMatches(t) ==
    /\ IsDefined(coord)
    /\ TileCoordToString(Val(coord)) = TileCoordToString(TileCoordOf(t))

\* the arguments of each callback invocation: callback(null) in either branch
LoadTileCallbacks(t) == << <<"null">> >>

\* loadTile(tile, callback), lines 218-233
LoadTile(t) ==
    /\ IF LoadTileMatches(t)
         THEN /\ tiles' = [k \in DOMAIN tiles \cup {WrapKey(TileCoordOf(t).w)} |->
                              IF k = WrapKey(TileCoordOf(t).w) THEN t ELSE tiles[k]]
              /\ tile' = [tile EXCEPT ![t].buckets = {}]
         ELSE /\ tile' = [tile EXCEPT ![t].state = "errored"]
              /\ UNCHANGED tiles
    /\ last' = Call("loadTile", t, FALSE, Undefined, LoadTileCallbacks(t))
    /\ UNCHANGED <<map, options, url, coordinates, image, minzoom, maxzoom,
                   textureLoaded, texture, centerCoord, coord, boundsArray,
                   boundsBuffer, boundsVAO, gl, fetch, events, lastSet,
                   nSetCalls, lastPrepareImage>>

\* ---------------------------------------------------------------- serialize
\* serialize(), lines 235-241
serialize ==
    [type |-> "image", urls |-> Val(OptionsUrl(options)), coordinates |-> coordinates]

Serialize ==
    /\ last' = Call("serialize", 0, FALSE, Some(serialize), <<>>)
    /\ UNCHANGED <<source, tile, gl, fetch, events, lastSet, nSetCalls,
                   lastPrepareImage>>

\* ---------------------------------------------------------- specification
Next ==
    \/ OnAdd
    \/ \E err \in Errors : FetchFail(err)
    \/ FetchSucceed
    \/ \E cs \in CornerSets : SetCoordinates(cs)
    \/ Prepare
    \/ \E t \in TileIds : LoadTile(t)
    \/ Serialize

Spec == Init /\ [][Next]_vars

\* The runs in which the image can arrive: the failed fetch (after which no
\* image is ever stored) and the read-only serialize are left out.
NextLive ==
    \/ OnAdd
    \/ FetchSucceed
    \/ \E cs \in CornerSets : SetCoordinates(cs)
    \/ Prepare
    \/ \E t \in TileIds : LoadTile(t)

\* The host render loop calls prepare() on every frame: a prepare that has
\* something to do is not postponed forever.
SpecLive == Init /\ [][NextLive]_vars /\ WF_vars(Prepare)

\* The tile cache removes tile t.  The source has no unloadTile or abortTile
\* for the cache to call, so it is told nothing; the tile object is either
\* kept as it is (for reuse) or unloaded by the cache.
RemoveTile(t) ==
    /\ \E st \in {tile[t].state, "unloaded"} :
          tile' = [tile EXCEPT ![t].state = st]
    /\ last' = Call("_removeTile", t, FALSE, Undefined, <<>>)
    /\ UNCHANGED <<source, gl, fetch, events, lastSet, nSetCalls,
                   lastPrepareImage>>

\* The source with a tile cache that also removes tiles.  The geometry is
\* the one _finishLoading computes from the constructor's corners.
NextCache ==
    \/ OnAdd
    \/ FetchSucceed
    \/ Prepare
    \/ \E t \in TileIds : LoadTile(t)
    \/ \E t \in TileIds : RemoveTile(t)

SpecCache == Init /\ [][NextCache]_vars

\* The source on a GL context it shares with other renderers, with
\* _prepareImage called directly for any raster kind and resize flag.  The
\* geometry is the one _finishLoading computes from the constructor's corners.
NextGL ==
    \/ OnAdd
    \/ FetchSucceed
    \/ Prepare
    \/ \E t \in TileIds : LoadTile(t)
    \/ \E kind \in ImageKinds, resize \in BOOLEAN : PrepareImageCall(kind, resize)
    \/ BindForeignTexture

SpecGL == Init /\ [][NextGL]_vars

TypeOK ==
    /\ map \in BOOLEAN
    /\ coordinates \in CornerSets
    /\ textureLoaded \in BOOLEAN
    /\ DOMAIN tiles \subseteq {"0", "1"}
    /\ Claimed \subseteq TileIds
    /\ nSetCalls \in 0 .. MaxSetCalls

\* ================================================================== claims
\* Reference values: the anchor tile and the quad positions of each modelled
\* corner set, computed with the floating-point arithmetic of the source
\* (Mercator projection, getCoordinatesCenter, Math.floor, Math.round).
AnchorOf(cs) ==
    CASE cs = CornersA -> [z |-> 3, x |-> 1, y |-> 3]
      [] cs = CornersB -> [z |-> 3, x |-> 1, y |-> 3]
      [] cs = CornersC -> [z |-> 4, x |-> 11, y |-> 9]
PositionsOf(cs) ==
    CASE cs = CornersA -> << <<2731, 0>>, <<8192, 0>>, <<8192, 2731>>, <<2731, 2731>> >>
      [] cs = CornersB -> << <<2731, 0>>, <<8192, 2731>>, <<8192, 5461>>, <<2731, 2731>> >>
      [] cs = CornersC -> << <<2731, 2731>>, <<8192, 2731>>, <<8192, 8192>>, <<2731, 8192>> >>

\* the source has an anchor and tile t has its id (zoom, column, row)
AtAnchor(t) ==
    /\ IsDefined(coord)
    /\ Val(coord).z = TileCoordOf(t).z
    /\ Val(coord).x = TileCoordOf(t).x
    /\ Val(coord).y = TileCoordOf(t).y

\* ---------------------------------------------------------------------- C1
\* C1: every loadTile(tile, callback) call on a tile at the anchor registers
\* the tile under its wrap index, empties its buckets and leaves its state
\* alone; on any other tile, or when no anchor exists yet, it sets the
\* tile's state to 'errored' and registers nothing.  Either way the
\* callback is invoked exactly once, within the call, with null.
C1_LoadTile ==
    [][\A t \in TileIds :
         (last'.op = "loadTile" /\ last'.tile = t) =>
            /\ IF AtAnchor(t)
                 THEN /\ WrapKey(TileCoordOf(t).w) \in DOMAIN tiles'
                      /\ tiles'[WrapKey(TileCoordOf(t).w)] = t
                      /\ tile'[t].buckets = {}
                      /\ tile'[t].state = tile[t].state
                 ELSE /\ tile'[t].state = "errored"
                      /\ tiles' = tiles
            /\ last'.callbacks = << <<"null">> >>
            /\ ~last'.threw]_vars

\* tile 1, which held bucket data, is registered under wrap 0 and tile 2
\* under wrap 1; tile 4, not at the anchor, is errored
C1_Witness ==
    /\ last.op = "loadTile"
    /\ last.tile = 2
    /\ DOMAIN tiles = {"0", "1"}
    /\ tiles["0"] = 1 /\ tiles["1"] = 2
    /\ tile[1].buckets = {}
    /\ tile[4].state = "errored"

\* ---------------------------------------------------------------------- C2
\* C2: a prepare() call made while the claim table is empty or no image is
\* stored creates no texture and no buffer, issues no upload and writes no
\* tile.
C2_PrepareSkip ==
    [][(last'.op = "prepare" /\ (DOMAIN tiles = {} \/ ~IsDefined(image))) =>
          UNCHANGED <<gl, texture, textureLoaded, boundsBuffer, boundsVAO,
                      tile, source>>]_vars

\* prepare was called with a claimed tile but before the image arrived, and
\* (in another run) with the image but no claimed tile
C2_Witness ==
    /\ last.op = "prepare"
    /\ \/ DOMAIN tiles # {} /\ ~IsDefined(image)
       \/ DOMAIN tiles = {} /\ IsDefined(image)
    /\ gl.textures = 0 /\ gl.buffers = 0

\* ---------------------------------------------------------------------- C3
\* C3: whenever an anchor tile exists, minzoom and maxzoom both equal the
\* anchor's zoom.
C3_ZoomIsAnchorZoom ==
    IsDefined(coord) => minzoom = Val(coord).z /\ maxzoom = Val(coord).z

\* the anchor has moved to zoom 4 by a setCoordinates call after the load
C3_Witness ==
    /\ IsDefined(coord) /\ Val(coord).z = 4
    /\ options = OptionsA
    /\ IsDefined(image)
    /\ last.op = "setCoordinates"

\* ---------------------------------------------------------------------- C4
\* C4: the texture is created at most once: the first prepare that passes
\* its guards creates it, and no later step creates another texture or
\* replaces or drops the existing handle.
C4_TextureOnce ==
    /\ [](gl.textures <= 1)
    /\ [](textureLoaded <=> gl.textures = 1)
    /\ [](textureLoaded <=> IsDefined(texture))
    /\ [][/\ (last'.op = "prepare" /\ DOMAIN tiles # {} /\ IsDefined(image))
               => IsDefined(texture')
          /\ gl'.textures # gl.textures => last'.op = "prepare"
          /\ IsDefined(texture) => texture' = texture]_vars

\* prepare ran again after the texture existed and a setCoordinates call
\* had made it rebuild the buffer
C4_Witness ==
    /\ last.op = "prepare"
    /\ gl.textures = 1
    /\ gl.buffers = 2

\* ---------------------------------------------------------------------- C5
\* C5: at most one vertex buffer is alive, created minus destroyed is 1 when
\* the source references a buffer and 0 otherwise, and the referenced buffer
\* is not a destroyed one.  A setCoordinates call with a buffer destroys
\* exactly it and clears the reference, without one it destroys nothing; a
\* buffer is created only by a prepare that finds no reference.
C5_BufferAccounting ==
    /\ [](gl.buffers - gl.destroyed = IF IsDefined(boundsBuffer) THEN 1 ELSE 0)
    /\ [](IsDefined(boundsBuffer) => Val(boundsBuffer).id > gl.destroyed)
    /\ [][/\ last'.op = "setCoordinates" =>
               /\ gl'.destroyed = gl.destroyed + (IF IsDefined(boundsBuffer) THEN 1 ELSE 0)
               /\ ~IsDefined(boundsBuffer')
               /\ gl'.buffers = gl.buffers
          /\ gl'.destroyed # gl.destroyed =>
               \/ last'.op = "setCoordinates"
               \/ last'.op = "getImage callback"
          /\ gl'.buffers # gl.buffers =>
               /\ last'.op = "prepare"
               /\ ~IsDefined(boundsBuffer)
               /\ gl'.buffers = gl.buffers + 1
               /\ boundsBuffer' = Some([id |-> gl'.buffers, array |-> boundsArray])]_vars

\* a second buffer is alive after the first one was destroyed
C5_Witness ==
    /\ gl.destroyed = 1
    /\ gl.buffers = 2
    /\ IsDefined(boundsBuffer)

\* the anchor, the zoom bounds and the quad geometry are those of corners cs
DerivedFrom(cs, c, mn, mx, ba) ==
    /\ IsDefined(c)
    /\ Val(c).z = AnchorOf(cs).z
    /\ Val(c).x = AnchorOf(cs).x
    /\ Val(c).y = AnchorOf(cs).y
    /\ mn = AnchorOf(cs).z
    /\ mx = AnchorOf(cs).z
    /\ IsDefined(ba)
    /\ Len(Val(ba)) = 4
    /\ <<Val(ba)[1].x, Val(ba)[1].y>> = PositionsOf(cs)[1]
    /\ <<Val(ba)[2].x, Val(ba)[2].y>> = PositionsOf(cs)[2]
    /\ <<Val(ba)[3].x, Val(ba)[3].y>> = PositionsOf(cs)[4]
    /\ <<Val(ba)[4].x, Val(ba)[4].y>> = PositionsOf(cs)[3]

\* ---------------------------------------------------------------------- C6
\* C6: serialize() returns an object of type 'image' with the raster
\* locator under `url` and the current coordinates under `coordinates`, so
\* that a source constructed from it reads the same url and coordinates.
C6_SerializeRoundTrip ==
    last.op = "serialize" =>
        LET s == Val(last.returned)
        IN  /\ Get(s, "type") = Some("image")
            /\ OptionsUrl(s) = OptionsUrl(options)
            /\ OptionsCoordinates(s) = Some(coordinates)

\* ---------------------------------------------------------------------- C7
\* C7 as stated: a setCoordinates call completes normally in every
\* lifecycle state, the unattached one included: it has stored the corners,
\* computed anchor, zoom bounds and geometry, fired 'data'/'content' and
\* returned the source.
C7_CompletesInEveryState ==
    last.op = "setCoordinates" =>
        /\ ~last.threw
        /\ last.returned = Some("this")
        /\ coordinates = Val(lastSet).corners
        /\ DerivedFrom(coordinates, coord, minzoom, maxzoom, boundsArray)
        /\ Len(events) > 0
        /\ events[Len(events)] = ContentEvent

\* C7 amended: on an attached source (onAdd has run) a setCoordinates call
\* completes normally whether the image is being fetched, failed or has
\* loaded: it stores the corners, recomputes anchor, zoom bounds and
\* geometry from them, leaves the image alone, fires one 'data'/'content'
\* event and returns the source.  On an unattached source it stores the
\* corners and throws, computing nothing and firing nothing.
C7_CompletesWhenAttached ==
    [][last'.op = "setCoordinates" =>
         LET cs == Val(lastSet').corners
         IN  IF map
               THEN /\ ~last'.threw
                    /\ last'.returned = Some("this")
                    /\ coordinates' = cs
                    /\ DerivedFrom(cs, coord', minzoom', maxzoom', boundsArray')
                    /\ events' = Append(events, ContentEvent)
                    /\ UNCHANGED <<image, fetch, map>>
               ELSE /\ last'.threw
                    /\ coordinates' = cs
                    /\ UNCHANGED <<coord, centerCoord, minzoom, maxzoom,
                                   boundsArray, boundsBuffer, events, image,
                                   fetch, map>>]_vars

\* a call that completed while the fetch was still pending
C7_Witness ==
    /\ last.op = "setCoordinates"
    /\ ~last.threw
    /\ FetchPending
    /\ ~IsDefined(image)
    /\ coordinates # Val(OptionsCoordinates(options))

\* ---------------------------------------------------------------------- C8
\* C8 as stated: after any setCoordinates call the stored coordinates, the
\* anchor, minzoom/maxzoom and the geometry are those derived from the
\* corners of the most recent call.
C8_LastWriteWins ==
    IsDefined(lastSet) =>
        /\ coordinates = Val(lastSet).corners
        /\ DerivedFrom(Val(lastSet).corners, coord, minzoom, maxzoom, boundsArray)

\* C8 amended: the stored coordinates are those of the most recent
\* setCoordinates call; if that call returned normally (attached source),
\* anchor, minzoom/maxzoom and geometry are exactly those derived from its
\* corners; if it threw (unattached source), none of them has been computed.
C8_LastCompletedWriteWins ==
    IsDefined(lastSet) =>
        /\ coordinates = Val(lastSet).corners
        /\ ~Val(lastSet).threw =>
              DerivedFrom(Val(lastSet).corners, coord, minzoom, maxzoom, boundsArray)
        /\ Val(lastSet).threw =>
              /\ ~IsDefined(coord) /\ ~IsDefined(boundsArray)
              /\ minzoom = DefaultMinzoom /\ maxzoom = DefaultMaxzoom

\* two calls on an attached source, each after a prepare had built a buffer;
\* the second one moved the anchor back to the tile of the first options
C8_Witness ==
    /\ last.op = "setCoordinates"
    /\ nSetCalls = 2
    /\ gl.destroyed = 2
    /\ options = OptionsC
    /\ coordinates = CornersC

\* ---------------------------------------------------------------------- C9
CountOf(type) == Cardinality({i \in 1 .. Len(events) : events[i].type = type})
FetchStatus(f) == IF IsDefined(f) THEN Val(f).status ELSE "none"

\* C9: load() fires exactly one 'dataloading' event, before the fetch
\* outcome is handled.  A failed fetch fires exactly one 'error' event with
\* the cause, stores no image, fires no 'data' event, computes no anchor and
\* is not retried, so prepare stays a no-op.  A successful fetch (on the
\* attached source) stores the image, recomputes the anchor from the
\* current coordinates and fires 'data'/'content' then 'data'/'metadata'.
C9_LoadProtocol ==
    /\ [](CountOf("dataloading") = IF IsDefined(fetch) THEN 1 ELSE 0)
    /\ [](\A i \in 1 .. Len(events) :
             (events[i].type = "error" \/ events[i] = MetadataEvent) =>
                \E j \in 1 .. (i - 1) : events[j] = DataLoadingEvent)
    /\ [](FetchStatus(fetch) = "failed" =>
             /\ ~IsDefined(image)
             /\ CountOf("error") = 1
             /\ \A i \in 1 .. Len(events) : events[i] # MetadataEvent
             /\ gl.textures = 0 /\ gl.buffers = 0 /\ gl.texImage2D = 0
             /\ \A t \in TileIds : tile[t].state # "loaded")
    /\ [][/\ FetchStatus(fetch) = "failed" => fetch' = fetch
          /\ (FetchStatus(fetch) = "pending" /\ FetchStatus(fetch') = "failed") =>
               /\ events' = Append(events, ErrorEvent(Val(Val(fetch').error)))
               /\ UNCHANGED <<source, tile, gl>>
          /\ (FetchStatus(fetch) = "pending" /\ FetchStatus(fetch') = "loaded") =>
               /\ image' = Some([src |-> url, kind |-> "HTMLImageElement"])
               /\ coordinates' = coordinates
               /\ DerivedFrom(coordinates, coord', minzoom', maxzoom', boundsArray')
               /\ events' = events \o << ContentEvent, MetadataEvent >>]_vars

\* the image arrived after a setCoordinates call on the attached source
C9_Witness ==
    /\ last.op = "getImage callback"
    /\ FetchStatus(fetch) = "loaded"
    /\ IsDefined(image)
    /\ nSetCalls >= 1
    /\ coordinates # Val(OptionsCoordinates(options))
    /\ Len(events) >= 4

\* --------------------------------------------------------------------- C10
\* C10: every tile in the claim table is at the current anchor, also after
\* a setCoordinates call that moved the anchor.
C10_ClaimedTilesAtAnchor == \A t \in Claimed : AtAnchor(t)


\* --------------------------------------------------------------------- C11
\* C11: the geometry built by setCoordinates has exactly four vertices:
\* vertex 0 from corner 0 with texture coordinate (0,0), vertex 1 from
\* corner 1 with (EXTENT,0), vertex 2 from corner 3 with (0,EXTENT) and
\* vertex 3 from corner 2 with (EXTENT,EXTENT); each position is the corner
\* at the anchor zoom minus the anchor column/row, times EXTENT, rounded.
C11_QuadVertexOrder ==
    IsDefined(boundsArray) =>
        LET p == PositionsOf(Val(lastSet).corners)
        IN  Val(boundsArray) =
              << [x |-> p[1][1], y |-> p[1][2], tx |-> 0, ty |-> 0],
                 [x |-> p[2][1], y |-> p[2][2], tx |-> 8192, ty |-> 0],
                 [x |-> p[4][1], y |-> p[4][2], tx |-> 0, ty |-> 8192],
                 [x |-> p[3][1], y |-> p[3][2], tx |-> 8192, ty |-> 8192] >>

\* the geometry of the corners that are not a rectangle has been built
C11_Witness ==
    /\ last.op = "setCoordinates"
    /\ ~last.threw
    /\ coordinates = CornersB
    /\ IsDefined(boundsArray)
    /\ Val(boundsArray)[3].y = 2731
    /\ Val(boundsArray)[4].y = 5461


\* --------------------------------------------------------------------- C12
\* C12: a setCoordinates call with the same four corners as the previous
\* (completed) setCoordinates call leaves the anchor tile, minzoom/maxzoom
\* and the four-vertex geometry exactly as they were, whether or not a
\* prepare built a buffer in between.
C12_Idempotent ==
    [][(/\ last'.op = "setCoordinates"
        /\ ~last'.threw
        /\ IsDefined(lastSet)
        /\ ~Val(lastSet).threw
        /\ Val(lastSet').corners = Val(lastSet).corners) =>
          /\ coord' = coord
          /\ centerCoord' = centerCoord
          /\ minzoom' = minzoom
          /\ maxzoom' = maxzoom
          /\ boundsArray' = boundsArray
          /\ Len(Val(boundsArray')) = 4]_vars

\* the only user call repeated the corners of the call made when the image
\* loaded, after a prepare had built a buffer from them
C12_Witness ==
    /\ last.op = "setCoordinates"
    /\ nSetCalls = 1
    /\ IsDefined(image)
    /\ gl.destroyed = 1
    /\ coordinates = Val(OptionsCoordinates(options))


\* --------------------------------------------------------------------- C13
\* C13: a live vertex buffer was built from the quad geometry of the most
\* recent setCoordinates call, never from geometry a later call replaced.
C13_BufferIsCurrent ==
    IsDefined(boundsBuffer) =>
        /\ IsDefined(Val(boundsBuffer).array)
        /\ Val(boundsBuffer).array = boundsArray
        /\ IsDefined(lastSet)
        /\ ~Val(lastSet).threw
        /\ LET a == Val(Val(boundsBuffer).array)
               p == PositionsOf(Val(lastSet).corners)
           IN  << <<a[1].x, a[1].y>>, <<a[2].x, a[2].y>>,
                  <<a[4].x, a[4].y>>, <<a[3].x, a[3].y>> >> = p

\* the buffer was rebuilt from the geometry of a later setCoordinates call
C13_Witness ==
    /\ IsDefined(boundsBuffer)
    /\ Val(boundsBuffer).id = 2
    /\ last.op = "prepare"
    /\ coordinates # Val(OptionsCoordinates(options))


\* --------------------------------------------------------------------- C14
\* C14: after a prepare() call made with a stored image and a non-empty
\* claim table a texture and a vertex buffer exist and every claimed tile
\* is 'loaded'; a tile that was not 'loaded' before now holds the source's
\* texture, a tile that was 'loaded' is untouched; other tiles are not
\* written.
C14_PreparePostcondition ==
    [][(last'.op = "prepare" /\ IsDefined(image) /\ DOMAIN tiles # {}) =>
          /\ IsDefined(texture')
          /\ textureLoaded'
          /\ IsDefined(boundsBuffer')
          /\ tiles' = tiles
          /\ \A k \in DOMAIN tiles :
               /\ tile'[tiles[k]].state = "loaded"
               /\ tile[tiles[k]].state # "loaded" =>
                     tile'[tiles[k]].texture = texture'
               /\ tile[tiles[k]].state = "loaded" =>
                     tile'[tiles[k]] = tile[tiles[k]]
          /\ \A t \in TileIds :
               (\A k \in DOMAIN tiles : tiles[k] # t) => tile'[t] = tile[t]]_vars

\* both world copies are claimed, loaded and hold the texture
C14_Witness ==
    /\ last.op = "prepare"
    /\ DOMAIN tiles = {"0", "1"}
    /\ \A k \in DOMAIN tiles :
         tile[tiles[k]].state = "loaded" /\ tile[tiles[k]].texture = texture
    /\ IsDefined(texture)
    /\ IsDefined(boundsBuffer)


\* --------------------------------------------------------------------- C16
\* C16: a setCoordinates call never changes the texture handle, the
\* texture-created flag, the stored image, the claim table or any tile; of
\* the GPU resources it can only destroy the vertex buffer.
C16_SetCoordinatesFrame ==
    [][last'.op = "setCoordinates" =>
          /\ UNCHANGED <<texture, textureLoaded, image, tiles, tile, boundsVAO>>
          /\ gl' = [gl EXCEPT !.destroyed = gl'.destroyed]]_vars

\* a call made when a texture, a buffer and a loaded claimed tile existed
C16_Witness ==
    /\ last.op = "setCoordinates"
    /\ ~last.threw
    /\ textureLoaded
    /\ IsDefined(texture)
    /\ gl.destroyed >= 1
    /\ \E k \in DOMAIN tiles :
         tile[tiles[k]].state = "loaded" /\ tile[tiles[k]].texture = texture


\* --------------------------------------------------------------------- C20
\* C20: a non-empty claim table implies that an anchor exists and that the
\* four-vertex geometry has been computed, so a prepare that passes its
\* guards never builds a vertex buffer from missing geometry.
C20_GeometryBeforeBuffer ==
    /\ DOMAIN tiles # {} =>
          /\ IsDefined(coord)
          /\ IsDefined(boundsArray)
          /\ Len(Val(boundsArray)) = 4
    /\ IsDefined(boundsBuffer) =>
          /\ IsDefined(Val(boundsBuffer).array)
          /\ Len(Val(Val(boundsBuffer).array)) = 4

\* prepare built the first buffer, for a claimed tile, after a user call of
\* setCoordinates
C20_Witness ==
    /\ last.op = "prepare"
    /\ DOMAIN tiles # {}
    /\ IsDefined(boundsBuffer)
    /\ Val(boundsBuffer).id = 1
    /\ gl.destroyed = 0
    /\ nSetCalls >= 1


\* --------------------------------------------------------------------- C18
\* C18 as stated: with the image loaded and the render loop calling
\* prepare, every tile registered by a matching loadTile eventually is
\* 'loaded' and holds the source's texture, whatever the order of load
\* callback, loadTile and setCoordinates.
C18_ClaimedTilesGetLoaded ==
    \A t \in TileIds :
        (IsDefined(image) /\ t \in Claimed) ~>
            (tile[t].state = "loaded" /\ IsDefined(texture)
                /\ tile[t].texture = texture)

\* C18 amended: with the image loaded and the render loop calling prepare,
\* every tile registered by a matching loadTile eventually is 'loaded' and
\* holds the source's texture, or has been replaced in the claim table by
\* another tile registered under the same wrap index.
C18_ClaimedTilesGetLoadedOrReplaced ==
    \A t \in TileIds :
        (IsDefined(image) /\ t \in Claimed) ~>
            \/ t \notin Claimed
            \/ (tile[t].state = "loaded" /\ IsDefined(texture)
                  /\ tile[t].texture = texture)

\* a claimed tile has been loaded by a prepare after the image arrived
C18_Witness ==
    /\ last.op = "prepare"
    /\ IsDefined(image)
    /\ Len(events) >= 4
    /\ events[Len(events)] = MetadataEvent
    /\ \E t \in Claimed : tile[t].state = "loaded" /\ tile[t].texture = texture

\* a step in which _prepareImage runs: called directly, or by a prepare()
\* that had something to do
ExecutesPrepareImage ==
    \/ last'.op = "_prepareImage"
    \/ last'.op = "prepare" /\ Cardinality(DOMAIN tiles) # 0 /\ IsDefined(image)

\* C15: texture update policy of _prepareImage.  The call that creates the
\* texture performs one full upload; every later call performs exactly one
\* full re-upload if the resize flag is set (whatever the raster kind),
\* exactly one partial update if the flag is not set and the raster is a
\* video, a canvas or image data, and no upload at all if the flag is not
\* set and the raster is a static image.
C15_UploadPolicy ==
    [][ExecutesPrepareImage =>
         LET call == Val(lastPrepareImage')
             full == gl'.texImage2D - gl.texImage2D
             part == gl'.texSubImage2D - gl.texSubImage2D
             streaming == call.image.kind \in
                            {"HTMLVideoElement", "HTMLCanvasElement", "ImageData"}
         IN  /\ ~textureLoaded =>
                  /\ gl'.textures = gl.textures + 1
                  /\ texture' = Some(gl'.textures)
                  /\ full = 1 /\ part = 0
             /\ textureLoaded /\ call.resize =>
                  /\ full = 1 /\ part = 0
             /\ textureLoaded /\ ~call.resize /\ streaming =>
                  /\ full = 0 /\ part = 1
             /\ textureLoaded /\ ~call.resize /\ call.image.kind = "HTMLImageElement" =>
                  /\ full = 0 /\ part = 0
             /\ textureLoaded => gl'.textures = gl.textures /\ texture' = texture
             /\ textureLoaded']_vars

\* a static image has been re-uploaded with the resize flag set, after the
\* first upload and one partial update of a streaming raster
C15_Witness ==
    /\ last.op = "_prepareImage"
    /\ IsDefined(lastPrepareImage)
    /\ Val(lastPrepareImage).resize
    /\ Val(lastPrepareImage).image.kind = "HTMLImageElement"
    /\ gl.texImage2D = 2
    /\ gl.texSubImage2D = 1


\* C19: every upload _prepareImage issues (the first full upload, the full
\* re-upload of a resized raster, the partial update of a streaming raster)
\* goes to this source's own texture, whatever texture another renderer
\* bound since the previous call.
C19_UploadsIntoOwnTexture ==
    [][(/\ ExecutesPrepareImage
        /\ \/ gl'.texImage2D # gl.texImage2D
           \/ gl'.texSubImage2D # gl.texSubImage2D) =>
         /\ IsDefined(texture')
         /\ gl'.uploadedTo = texture']_vars


\* C17: when the tile cache has destroyed a claimed tile, the next prepare
\* finds it gone from the claim table: the tile is not claimed afterwards,
\* prepare writes neither state nor texture to it, and prepare does nothing
\* at all if it was the only claimed tile.
C17_RemovedTileNotClaimed ==
    [][(/\ last.op = "_removeTile"
        /\ last.tile \in Claimed
        /\ last'.op = "prepare") =>
         /\ last.tile \notin Range(tiles')
         /\ tile'[last.tile] = tile[last.tile]
         /\ Claimed = {last.tile} => UNCHANGED <<source, gl, tile>>]_vars

====
